---- MODULE Spec2Model ----
(***************************************************************************)
(* Model of ctapipe/tools/hillas_reconstruction.py:                        *)
(* EventReconstructionHillas (setup / start / preselect /                  *)
(* reconstruct_event / finish).                                            *)
(*                                                                         *)
(* Angles of the selection cuts are in tenths of a degree, so that the     *)
(* 3.3 deg and 3.8 deg cuts are integers.  The external numeric routines   *)
(* (cleaning, dilation, moments, stereo fit, energy) are represented by    *)
(* the calls made to them and by results drawn from small sets.            *)
(***************************************************************************)
EXTENDS Integers, Sequences, FiniteSets, TLC

\* ------------------------------------------------------------------ bounds
NumTels == 2
MaxEvents == 2

Tels == 1..NumTels

\* ------------------------------------------------------- python dictionaries
EmptyDict == [k \in {} |-> 0]

Put(d, k, v) == [x \in (DOMAIN d) \cup {k} |-> IF x = k THEN v ELSE d[x]]

None == [absent |-> TRUE]

\* ------------------------------------------------------------ setup tables
amp_cut ==
  [c \in {"LSTCam", "NectarCam", "FlashCam", "GCT"} |->
     CASE c = "LSTCam" -> 100
       [] c = "NectarCam" -> 100
       [] c = "FlashCam" -> 100
       [] c = "GCT" -> 50]

\* tenths of a degree
dist_cut ==
  [c \in {"LSTCam", "NectarCam", "FlashCam", "GCT"} |->
     CASE c = "LSTCam" -> 20
       [] c = "NectarCam" -> 33
       [] c = "FlashCam" -> 30
       [] c = "GCT" -> 38]

tail_cut_mut ==
  [c \in {"LSTCam", "NectarCam", "FlashCam", "GCT", "ASTRI"} |->
     CASE c = "LSTCam" -> <<8, 16>>
       [] c = "NectarCam" -> <<7, 14>>
       [] c = "FlashCam" -> <<7, 14>>
       [] c = "GCT" -> <<3, 6>>
       [] c = "ASTRI" -> <<3, 6>>]

tail_cut ==
  [c \in {"LSTCam", "NectarCam", "FlashCam", "GCT"} |->
     CASE c = "LSTCam" -> <<8, 16>>
       [] c = "NectarCam" -> <<7, 14>>
       [] c = "FlashCam" -> <<7, 14>>
       [] c = "GCT" -> <<3, 6>>]

\* ------------------------------------------------------------------ inputs
\* camera types CameraGeometry.guess may infer; "ASTRI" has no cut registered
CamTypes == {"LSTCam", "GCT", "ASTRI"}

PreCamTypes == {"LSTCam", "NectarCam", "FlashCam", "GCT", "ASTRI"}

Moments(s, x, y, w) == [size |-> s, cen_x |-> x, cen_y |-> y, width |-> w]

\* nominal-frame moments the event loop is driven with
Images == { Moments(150, 10, 0, 5), Moments(100, 10, 0, 5),
            Moments(150, 10, 0, 0) }

\* moments preselect is exercised with on its own
PreMoments == { Moments(s, x, y, w) : s \in {50, 51, 100, 101},
                                      x \in {0, 12, 20, 30, 33, 38},
                                      y \in {0, 16},
                                      w \in {0, 5} }

\* which of the two hillas_parameters calls raises, if any
RaiseAt == {"none", "cam", "nom"}

\* array pointing (degrees)
Pointings == { [alt |-> 90, az |-> 0], [alt |-> 30, az |-> 0] }

FitCores == { <<1, 2>>, <<3, 1>> }
McCores == { <<0, 0>>, <<5, 5>> }
Draws == { 0, 1 }

VARIABLES
  pc,             \* position of the tool in start() / reconstruct_event()
  evCount,        \* events taken from self.source so far
  geoms,          \* self.geoms
  guess_calls,    \* number of CameraGeometry.guess calls per telescope id
  output,         \* self.output
  nMulti,         \* completed events that had two or more accepted telescopes
  written,        \* finish() has written the table
  \* locals of the running reconstruct_event call
  tels_with_data, \* event.dl0.tels_with_data
  todo,           \* telescopes the for loop has not visited yet
  array_pointing,
  image, pixel_x, pixel_y, pixel_area, tel_type, tel_x, tel_y,
  hillas, hillas_nom, tel_phi, tel_theta,
  fit_result,     \* the shower container as it currently stands
  \* record of the running call
  inp,            \* what each visited telescope supplied
  steps,          \* external calls made for each visited telescope
  calls,          \* event-level external calls
  fit_core,       \* core position returned by self.fit.predict
  mc_core,        \* event.mc.core_x, event.mc.core_y
  fwd_core,       \* core position seen by self.energy_reco.predict
  \* preselect called on its own
  pre_hillas, pre_tel_id, pre_result

dicts == <<image, pixel_x, pixel_y, pixel_area, tel_type, tel_x, tel_y,
           hillas, hillas_nom, tel_phi, tel_theta>>

fitvars == <<fit_result, fit_core, mc_core, fwd_core>>

pre == <<pre_hillas, pre_tel_id, pre_result>>

vars == <<pc, evCount, geoms, guess_calls, output, nMulti, written,
          tels_with_data, todo, array_pointing, dicts, fitvars, inp, steps,
          calls, pre>>

NoPointing == [alt |-> 90, az |-> 0]

\* --------------------------------------------------------------- preselect
preselect_mut(hillas_, tel_id) ==
  IF hillas_ = None THEN FALSE
  ELSE /\ hillas_.size >= amp_cut[geoms[tel_id]]
       /\ hillas_.cen_x * hillas_.cen_x + hillas_.cen_y * hillas_.cen_y
            < dist_cut[geoms[tel_id]] * dist_cut[geoms[tel_id]]
       /\ hillas_.width > 0

\* dist = sqrt(cen_x^2 + cen_y^2) < cut  is compared on the squares
preselect(hillas_, tel_id) ==
  IF hillas_ = None THEN FALSE
  ELSE /\ hillas_.size > amp_cut[geoms[tel_id]]
       /\ hillas_.cen_x * hillas_.cen_x + hillas_.cen_y * hillas_.cen_y
            < dist_cut[geoms[tel_id]] * dist_cut[geoms[tel_id]]
       /\ hillas_.width > 0

\* the dictionary lookups of the cut raise KeyError (and is evaluated left
\* to right, so dist_cut is only consulted when the amplitude cut passed)
preselect_raises(hillas_, tel_id) ==
  /\ hillas_ # None
  /\ \/ geoms[tel_id] \notin DOMAIN amp_cut
     \/ /\ hillas_.size > amp_cut[geoms[tel_id]]
        /\ geoms[tel_id] \notin DOMAIN dist_cut


\* ------------------------------------------------- pieces of the event loop
need_guess_mut(tel_id) == TRUE

\* "if tel_id not in self.geoms"
need_guess(tel_id) == tel_id \notin DOMAIN geoms

except_catches_mut(e) == e = "KeyError"

\* "except HillasParameterizationError as e"
except_catches(e) == e = "HillasParameterizationError"

n_dilate_mut == 2 - 1

\* "for i in range(2): dilate(...)"
n_dilate == 2

enough_telescopes_mut == Cardinality(DOMAIN image) > 0

\* "if len(image) > 1"
enough_telescopes == Cardinality(DOMAIN image) > 1

Successor_mut(p) ==
  CASE p = "fit" -> "energy"
    [] p = "set_props" -> "add_row"
    [] p = "energy" -> "set_props"
    [] p = "add_row" -> "idle"

add_row_mut(table, row) == <<row>>

\* self.output.add_row(...)
add_row(table, row) == Append(table, row)

\* statement order of the body of "if len(image) > 1"
Successor(p) ==
  CASE p = "fit" -> "set_props"
    [] p = "set_props" -> "energy"
    [] p = "energy" -> "add_row"
    [] p = "add_row" -> "idle"

\* tilted-ground -> ground projection of a core position along the pointing
\* direction; the identity for a pointing at zenith, a stretch by 1/cos(zd)
\* = 2 along x for the pointing at 60 deg zenith distance (az = 0)
project_to_ground(core, pointing) ==
  IF pointing.alt = 90 THEN core ELSE <<2 * core[1], core[2]>>

Repeat(x, n) == [i \in 1..n |-> x]

\* the calls made for one telescope up to and including preselect
ReducedTrace == <<"tailcuts_clean", "hillas_cam", "hillas_nom", "preselect">>

SaveDicts_mut(tel_id, m) ==
  /\ pixel_area' = Put(pixel_area, tel_id, "pix_area/fl^2")
  /\ pixel_x' = Put(pixel_x, tel_id, "nom_coord.x[mask]")
  /\ pixel_y' = Put(pixel_y, tel_id, "nom_coord.y[mask]")
  /\ tel_x' = Put(tel_x, tel_id, "tilt_tel.x")
  /\ tel_y' = Put(tel_y, tel_id, "tilt_tel.y")
  /\ tel_type' = Put(tel_type, tel_id, geoms'[tel_id])
  /\ image' = Put(image, tel_id, "pmt_signal[mask]")
  /\ hillas' = Put(hillas, tel_id, [frame |-> "camera", of |-> m])
  /\ hillas_nom' = IF m.size > 100 THEN Put(hillas_nom, tel_id, m)
                   ELSE hillas_nom
  /\ tel_phi' = Put(tel_phi, tel_id, array_pointing.az)
  /\ tel_theta' = Put(tel_theta, tel_id, 90 - array_pointing.alt)

\* "Save everything in dicts for reconstruction later"
SaveDicts(tel_id, m) ==
  /\ pixel_area' = Put(pixel_area, tel_id, "pix_area/fl^2")
  /\ pixel_x' = Put(pixel_x, tel_id, "nom_coord.x[mask]")
  /\ pixel_y' = Put(pixel_y, tel_id, "nom_coord.y[mask]")
  /\ tel_x' = Put(tel_x, tel_id, "tilt_tel.x")
  /\ tel_y' = Put(tel_y, tel_id, "tilt_tel.y")
  /\ tel_type' = Put(tel_type, tel_id, geoms'[tel_id])
  /\ image' = Put(image, tel_id, "pmt_signal[mask]")
  /\ hillas' = Put(hillas, tel_id, [frame |-> "camera", of |-> m])
  /\ hillas_nom' = Put(hillas_nom, tel_id, m)
  /\ tel_phi' = Put(tel_phi, tel_id, array_pointing.az)
  /\ tel_theta' = Put(tel_theta, tel_id, 90 - array_pointing.alt)

\* telescopes of the current event whose moments were computed and passed
Accepted ==
  { t \in DOMAIN inp : inp[t].raise_at = "none" /\ t \in DOMAIN geoms
                       /\ geoms[t] \in DOMAIN amp_cut
                       /\ preselect(inp[t].moments, t) }

\* ------------------------------------------------------------------- Init
NoCall ==
  /\ tels_with_data = {}
  /\ todo = {}
  /\ array_pointing = NoPointing
  /\ image = EmptyDict /\ pixel_x = EmptyDict /\ pixel_y = EmptyDict
  /\ pixel_area = EmptyDict /\ tel_type = EmptyDict
  /\ tel_x = EmptyDict /\ tel_y = EmptyDict
  /\ hillas = EmptyDict /\ hillas_nom = EmptyDict
  /\ tel_phi = EmptyDict /\ tel_theta = EmptyDict
  /\ fit_result = [core |-> <<>>]
  /\ inp = EmptyDict /\ steps = EmptyDict /\ calls = <<>>
  /\ fit_core = <<>> /\ mc_core = <<>> /\ fwd_core = <<>>

Init ==
  /\ pc = "idle"
  /\ evCount = 0
  /\ geoms = EmptyDict
  /\ guess_calls = [t \in Tels |-> 0]
  /\ output = <<>>
  /\ nMulti = 0
  /\ written = FALSE
  /\ NoCall
  /\ pre_hillas = None /\ pre_tel_id = 1 /\ pre_result = "unused"

\* ----------------------------------------------------------------- actions
\* reconstruct_event returns: its locals are gone
Return ==
  /\ pc' = "idle"
  /\ tels_with_data' = {}
  /\ todo' = {}
  /\ array_pointing' = NoPointing
  /\ image' = EmptyDict /\ pixel_x' = EmptyDict /\ pixel_y' = EmptyDict
  /\ pixel_area' = EmptyDict /\ tel_type' = EmptyDict
  /\ tel_x' = EmptyDict /\ tel_y' = EmptyDict
  /\ hillas' = EmptyDict /\ hillas_nom' = EmptyDict
  /\ tel_phi' = EmptyDict /\ tel_theta' = EmptyDict
  /\ fit_result' = [core |-> <<>>]
  /\ inp' = EmptyDict /\ steps' = EmptyDict /\ calls' = <<>>
  /\ fit_core' = <<>> /\ mc_core' = <<>> /\ fwd_core' = <<>>

\* start(): next event of self.source, calibrate_event, and the head of
\* reconstruct_event up to the for loop
BeginEvent ==
  /\ pc = "idle"
  /\ evCount < MaxEvents
  /\ evCount' = evCount + 1
  /\ \E tw \in SUBSET Tels : tels_with_data' = tw /\ todo' = tw
  /\ \E p \in Pointings : array_pointing' = p
  /\ image' = EmptyDict /\ pixel_x' = EmptyDict /\ pixel_y' = EmptyDict
  /\ pixel_area' = EmptyDict /\ tel_type' = EmptyDict
  /\ tel_x' = EmptyDict /\ tel_y' = EmptyDict
  /\ hillas' = EmptyDict /\ hillas_nom' = EmptyDict
  /\ tel_phi' = EmptyDict /\ tel_theta' = EmptyDict
  /\ pc' = "loop"
  /\ UNCHANGED <<geoms, guess_calls, output, nMulti, written, fitvars, inp,
                 steps, calls, pre>>

\* one iteration of "for tel_id in event.dl0.tels_with_data"
TelStep ==
  /\ pc = "loop"
  /\ todo # {}
  /\ \E tel_id \in todo, g \in CamTypes, m \in Images, r \in RaiseAt :
       /\ geoms' = IF need_guess(tel_id) THEN Put(geoms, tel_id, g) ELSE geoms
       /\ guess_calls' = IF need_guess(tel_id)
                         THEN [guess_calls EXCEPT ![tel_id] = @ + 1]
                         ELSE guess_calls
       /\ inp' = Put(inp, tel_id,
                     [raise_at |-> r,
                      moments |-> IF r = "none" THEN m ELSE None])
       /\ IF geoms'[tel_id] \notin DOMAIN tail_cut
          THEN \* KeyError in the arguments of tailcuts_clean, outside the try
               /\ pc' = "aborted"
               /\ steps' = Put(steps, tel_id, <<>>)
               /\ UNCHANGED <<todo, dicts>>
          ELSE IF r # "none"
          THEN /\ steps' = Put(steps, tel_id,
                              IF r = "cam"
                              THEN SubSeq(ReducedTrace, 1, 2)
                              ELSE SubSeq(ReducedTrace, 1, 3))
               /\ UNCHANGED dicts
               /\ IF except_catches("HillasParameterizationError")
                  THEN \* print(e); continue
                       pc' = "loop" /\ todo' = todo \ {tel_id}
                  ELSE pc' = "aborted" /\ UNCHANGED todo
          ELSE IF preselect_raises(m, tel_id)'
          THEN /\ pc' = "aborted"
               /\ steps' = Put(steps, tel_id, ReducedTrace)
               /\ UNCHANGED <<todo, dicts>>
          ELSE /\ pc' = "loop"
               /\ todo' = todo \ {tel_id}
               /\ IF preselect(m, tel_id)'
                  THEN /\ steps' = Put(steps, tel_id,
                                      ReducedTrace \o Repeat("dilate", n_dilate))
                       /\ SaveDicts(tel_id, m)
                  ELSE /\ steps' = Put(steps, tel_id, ReducedTrace)
                       /\ UNCHANGED dicts
  /\ UNCHANGED <<evCount, output, nMulti, written, tels_with_data,
                 array_pointing, fitvars, calls, pre>>

\* "if len(image) > 1" once the loop is over
Gate ==
  /\ pc = "loop"
  /\ todo = {}
  /\ IF enough_telescopes
     THEN /\ pc' = "fit"
          /\ UNCHANGED <<nMulti, tels_with_data, todo, array_pointing, dicts,
                         fitvars, inp, steps, calls>>
     ELSE /\ nMulti' = nMulti + (IF Cardinality(Accepted) >= 2 THEN 1 ELSE 0)
          /\ Return
  /\ UNCHANGED <<evCount, geoms, guess_calls, output, written, pre>>

\* self.fit.predict, then the two assignments of fit_result.core_x/core_y:
\* first core_tilt (the fit's own value), then normal(event.mc.core, 25)
FitPredict ==
  /\ pc = "fit"
  /\ calls' = Append(calls, "fit.predict")
  /\ \E c \in FitCores, mc \in McCores, dx \in Draws, dy \in Draws :
       /\ fit_core' = c
       /\ mc_core' = mc
       /\ fit_result' = [core |-> <<mc[1] + dx, mc[2] + dy>>]
  /\ pc' = Successor("fit")
  /\ UNCHANGED <<evCount, geoms, guess_calls, output, nMulti, written,
                 tels_with_data, todo, array_pointing, dicts, fwd_core, inp,
                 steps, pre>>

SetEventProperties ==
  /\ pc = "set_props"
  /\ calls' = Append(calls, "energy_reco.set_event_properties")
  /\ pc' = Successor("set_props")
  /\ UNCHANGED <<evCount, geoms, guess_calls, output, nMulti, written,
                 tels_with_data, todo, array_pointing, dicts, fitvars, inp,
                 steps, pre>>

EnergyPredict ==
  /\ pc = "energy"
  /\ calls' = Append(calls, "energy_reco.predict")
  /\ fwd_core' = fit_result.core
  /\ pc' = Successor("energy")
  /\ UNCHANGED <<evCount, geoms, guess_calls, output, nMulti, written,
                 tels_with_data, todo, array_pointing, dicts, fit_result,
                 fit_core, mc_core, inp, steps, pre>>

\* self.output.add_row; the columns that only copy external results
\* (RECO_*, SIM_*) are left out of the row
AddRow ==
  /\ pc = "add_row"
  /\ output' = add_row(output, [EVENT_ID |-> evCount,
                                NTELS |-> Cardinality(DOMAIN image)])
  /\ nMulti' = nMulti + (IF Cardinality(Accepted) >= 2 THEN 1 ELSE 0)
  /\ IF Successor("add_row") = "idle"
     THEN Return
     ELSE /\ pc' = Successor("add_row")
          /\ UNCHANGED <<tels_with_data, todo, array_pointing, dicts, fitvars,
                         inp, steps, calls>>
  /\ UNCHANGED <<evCount, geoms, guess_calls, written, pre>>

\* the source is exhausted: finish() writes the table
Finish ==
  /\ pc = "idle"
  /\ written' = TRUE
  /\ pc' = "finished"
  /\ UNCHANGED <<evCount, geoms, guess_calls, output, nMulti,
                 tels_with_data, todo, array_pointing, dicts, fitvars, inp,
                 steps, calls, pre>>

Next ==
  \/ BeginEvent
  \/ TelStep
  \/ Gate
  \/ FitPredict
  \/ SetEventProperties
  \/ EnergyPredict
  \/ AddRow
  \/ Finish

Spec == Init /\ [][Next]_vars

\* --------------------------------------------- preselect exercised directly
InitPre ==
  /\ pc = "preselect"
  /\ evCount = 0
  /\ \E t \in Tels, c \in PreCamTypes :
       /\ pre_tel_id = t
       /\ geoms = Put(EmptyDict, t, c)
       /\ guess_calls = [u \in Tels |-> IF u = t THEN 1 ELSE 0]
  /\ pre_hillas \in PreMoments \cup {None}
  /\ pre_result = "pending"
  /\ output = <<>>
  /\ nMulti = 0
  /\ written = FALSE
  /\ NoCall

CallPreselect ==
  /\ pc = "preselect"
  /\ pre_result' = IF preselect_raises(pre_hillas, pre_tel_id) THEN "KeyError"
                   ELSE IF preselect(pre_hillas, pre_tel_id) THEN "True"
                   ELSE "False"
  /\ pc' = "preselect_done"
  /\ UNCHANGED <<evCount, geoms, guess_calls, output, nMulti, written,
                 tels_with_data, todo, array_pointing, dicts, fitvars, inp,
                 steps, calls, pre_hillas, pre_tel_id>>

NextPre == CallPreselect

SpecPre == InitPre /\ [][NextPre]_vars

\* ------------------------------------------------------------- properties
Range(f) == { f[i] : i \in DOMAIN f }

Registered(c) ==
  c \in (DOMAIN tail_cut) \cap (DOMAIN amp_cut) \cap (DOMAIN dist_cut)

AppendOnly ==
  \/ output' = output
  \/ /\ Len(output') = Len(output) + 1
     /\ SubSeq(output', 1, Len(output)) = output

\* C1: the table has exactly one row per completed event in which two or
\* more telescopes passed selection, and no row for any other event.
C1_RowsCountMultiTelescopeEvents == Len(output) = nMulti

\* two events done, one of them gave a row and the other did not
C1_Witness == pc = "idle" /\ evCount = 2 /\ Len(output) = 1

\* C2: preselect returns False for absent moments; otherwise (camera type
\* registered) it returns True exactly when size > amp_cut, the squared
\* centroid distance is below dist_cut squared, and width > 0.
C2_PreselectRule ==
  pc = "preselect_done" =>
    IF pre_hillas = None THEN pre_result = "False"
    ELSE geoms[pre_tel_id] \in DOMAIN amp_cut =>
           /\ pre_result \in {"True", "False"}
           /\ pre_result = "True" <=>
                /\ pre_hillas.size > amp_cut[geoms[pre_tel_id]]
                /\ pre_hillas.cen_x * pre_hillas.cen_x
                     + pre_hillas.cen_y * pre_hillas.cen_y
                   < dist_cut[geoms[pre_tel_id]] * dist_cut[geoms[pre_tel_id]]
                /\ pre_hillas.width > 0

\* size equal to the amplitude cut, inside the distance cut, positive width:
\* rejected
C2_Witness ==
  /\ pc = "preselect_done"
  /\ pre_hillas # None
  /\ geoms[pre_tel_id] = "GCT"
  /\ pre_hillas.size = 50 /\ pre_hillas.width > 0
  /\ pre_hillas.cen_x = 12 /\ pre_hillas.cen_y = 16
  /\ pre_result = "False"

FailedNow(t) ==
  /\ t \notin DOMAIN inp
  /\ t \in DOMAIN inp'
  /\ inp'[t].raise_at # "none"
  /\ geoms'[t] \in DOMAIN tail_cut

\* C3: a telescope whose moment computation raised (camera-frame or
\* nominal-frame call) is in none of the per-telescope dictionaries, and the
\* step in which it raised leaves the loop running with that telescope done
\* and the dictionaries as they were.
C3_HillasErrorSkipsTelescope ==
  /\ [](\A t \in DOMAIN inp :
          (inp[t].raise_at # "none" /\ geoms[t] \in DOMAIN tail_cut) =>
             /\ t \notin DOMAIN image \cup DOMAIN hillas \cup DOMAIN hillas_nom
             /\ t \notin DOMAIN tel_type \cup DOMAIN tel_x \cup DOMAIN tel_y
             /\ t \notin DOMAIN pixel_x \cup DOMAIN pixel_y
             /\ t \notin DOMAIN pixel_area \cup DOMAIN tel_phi
             /\ t \notin DOMAIN tel_theta)
  /\ [][\A t \in Tels : FailedNow(t) =>
          /\ pc' = "loop"
          /\ todo' = todo \ {t}
          /\ dicts' = dicts
          /\ output' = output]_vars

\* the nominal-frame call raised for one telescope, another telescope of the
\* same event was accepted, and the loop has run to its end
C3_Witness ==
  /\ pc = "loop" /\ todo = {}
  /\ \E t \in DOMAIN inp : inp[t].raise_at = "nom"
  /\ image # EmptyDict

\* C4: an entry of self.geoms never changes and is never removed, and
\* CameraGeometry.guess has run exactly once for the cached ids and never
\* for the others.
C4_GeomsWriteOnce ==
  /\ [][\A t \in DOMAIN geoms : t \in DOMAIN geoms' /\ geoms'[t] = geoms[t]]_vars
  /\ [](\A t \in Tels : guess_calls[t] = (IF t \in DOMAIN geoms THEN 1 ELSE 0))

\* every telescope was accepted in event 1 (so all were cached then), and
\* one of them has been visited again in event 2
C4_Witness ==
  /\ evCount = 2
  /\ Len(output) = 1 /\ output[1].EVENT_ID = 1 /\ output[1].NTELS = NumTels
  /\ inp # EmptyDict

\* C5: once a visited telescope has a camera type without cuts the run is
\* aborted; nothing happens after the abort, and the table holds no row of
\* the aborted event.
C5_UnregisteredCameraIsFatal ==
  /\ []((\E t \in DOMAIN inp : ~Registered(geoms[t])) => pc = "aborted")
  /\ [](pc = "aborted" => \A i \in DOMAIN output : output[i].EVENT_ID # evCount)
  /\ [][pc # "aborted"]_vars

\* aborted with events left in the source, after another telescope of the
\* same event had been accepted
C5_Witness ==
  /\ pc = "aborted" /\ evCount < MaxEvents
  /\ image # EmptyDict
  /\ \E t \in DOMAIN inp : geoms[t] = "ASTRI"

KeySets ==
  { DOMAIN image, DOMAIN pixel_x, DOMAIN pixel_y, DOMAIN pixel_area,
    DOMAIN tel_type, DOMAIN tel_x, DOMAIN tel_y, DOMAIN hillas,
    DOMAIN hillas_nom, DOMAIN tel_phi, DOMAIN tel_theta }

\* C6: the eleven per-telescope dictionaries have one key set, the set of
\* visited telescopes whose moments were computed and passed preselect; the
\* NTELS of a row is the size of that set and at least 2.
C6_OneKeySet ==
  /\ [](KeySets = {Accepted})
  /\ [](\A i \in DOMAIN output : output[i].NTELS >= 2)
  /\ [][output' # output =>
          output'[Len(output')].NTELS = Cardinality(Accepted)]_vars

\* end of the loop with two or more accepted and one visited but not accepted
C6_Witness ==
  /\ pc = "loop" /\ todo = {}
  /\ Cardinality(DOMAIN image) >= 2
  /\ \E t \in DOMAIN image : tel_type[t] = "GCT" /\ hillas_nom[t].size = 100

CallOrder ==
  <<"fit.predict", "energy_reco.set_event_properties", "energy_reco.predict">>

\* C7: the event-level calls are made in the order fit.predict,
\* set_event_properties, energy predict, add_row, once each, only after the
\* loop is over and only with two or more accepted telescopes; an event
\* ends without a row only if fewer than two were accepted, and then with
\* no call made.
C7_CallOrder ==
  /\ [](\E n \in 0..Len(CallOrder) : calls = SubSeq(CallOrder, 1, n))
  /\ [](calls # <<>> => todo = {} /\ Cardinality(Accepted) >= 2)
  /\ [][output' # output =>
          calls = CallOrder /\ Len(output') = Len(output) + 1]_vars
  /\ [][(pc # "idle" /\ pc' = "idle" /\ output' = output) =>
          calls = <<>> /\ Cardinality(Accepted) < 2]_vars

C7_Witness == pc = "add_row" /\ calls = CallOrder

\* C8: the core position the energy estimator receives is the fit's core
\* position projected from the tilted-ground frame to the ground frame.
C8_ForwardedCoreIsFitCore ==
  fwd_core # <<>> => fwd_core = project_to_ground(fit_core, array_pointing)

\* C9: at the start of the loop of every event all per-telescope
\* dictionaries are empty, their keys are always telescopes visited in the
\* current event, and the table only ever grows by one row at its end.
C9_NoCrossEventState ==
  /\ []((pc = "loop" /\ todo = tels_with_data) => KeySets = {{}})
  /\ [](UNION KeySets \subseteq tels_with_data \ todo)
  /\ [][AppendOnly]_vars

\* event 1 accepted every telescope; event 2 has data but its gate is shut
C9_Witness ==
  /\ evCount = 2 /\ pc = "loop" /\ todo = {} /\ tels_with_data = Tels
  /\ Len(output) = 1 /\ output[1].NTELS = NumTels
  /\ Cardinality(DOMAIN image) < 2

\* C10 as stated: the mask is dilated twice before the moments are computed,
\* for every image that gets parameterized.
C10_DilateBeforeParameterize ==
  \A t \in DOMAIN steps :
    "hillas_cam" \in Range(steps[t]) =>
      /\ Len(steps[t]) >= 4
      /\ SubSeq(steps[t], 1, 4) =
           <<"tailcuts_clean", "dilate", "dilate", "hillas_cam">>

\* C10 amended: the calls for a telescope are clean, moments (camera, then
\* nominal), preselect, and only for an accepted image two dilate calls
\* after preselect; no dilate call is made for any other image.
C10_DilateAfterSelection ==
  \A t \in DOMAIN steps :
    IF t \in DOMAIN image
    THEN steps[t] = <<"tailcuts_clean", "hillas_cam", "hillas_nom",
                      "preselect", "dilate", "dilate">>
    ELSE /\ "dilate" \notin Range(steps[t])
         /\ \E n \in 0..4 :
              steps[t] = SubSeq(<<"tailcuts_clean", "hillas_cam",
                                  "hillas_nom", "preselect">>, 1, n)

\* one image accepted (dilated), another one rejected by preselect
C10_Witness ==
  /\ image # EmptyDict
  /\ \E t \in DOMAIN steps :
       t \notin DOMAIN image /\ "preselect" \in Range(steps[t])

====
